---- MODULE Spec2Model ----
(***************************************************************************)
(* Session subsystem of mcp-terminal-awareness: the terminal.run tool, the *)
(* heuristics engine (prompt detection, quiet-complete timer, idle timer), *)
(* the bounded output buffer, the session store and the tools that query   *)
(* and drive a session (status, attach, list, write, signal).              *)
(*                                                                         *)
(* Time is Date.now() in milliseconds. Text is a sequence of characters,   *)
(* each character a token: "a", "$", " ", "LF" (\n), "CR" (\r), "ESC"      *)
(* (\u001b), "U2713" (the check mark, 3 bytes in UTF-8), ...               *)
(***************************************************************************)
EXTENDS Integers, Sequences, FiniteSets, TLC

(* ------------------------------ bounds --------------------------------- *)

\* Chunks the adapter delivers to one session.
MaxChunks == 2
\* The clock advances on its own only up to MaxTicks idle-poll periods; the
\* idle poll is not followed beyond that horizon.
MaxTicks == 3
\* Calls of terminal.write and terminal.signal that reach the adapter of one
\* session.
MaxCalls == 1
\* Chunks made of spinner frames only that the adapter delivers to one
\* session, on top of MaxChunks.
MaxFrames == 1

(* --------------------------- program constants ------------------------- *)

\* setInterval(..., 1000) of the idle poll
IdlePollMs == 1000
\* setTimeout(() => store.remove(session.id), 60000)
GraceMs == 60000
\* sess.maxBufferBytes || 2_000_000
DefaultCap == 2000000

Horizon == MaxTicks * IdlePollMs

(* ------------------------------- text ---------------------------------- *)

\* Buffer.byteLength(c, "utf8") of one character
CharBytes(c) == IF c = "U2713" THEN 3 ELSE 1

\* Buffer.byteLength(text, "utf8")
RECURSIVE ByteLength(_)
ByteLength(text) ==
  IF text = <<>> THEN 0 ELSE CharBytes(Head(text)) + ByteLength(Tail(text))

\* buf.join('')
RECURSIVE Join(_)
Join(buf) == IF buf = <<>> THEN <<>> ELSE Head(buf) \o Join(Tail(buf))

\* sum of Buffer.byteLength over the chunks of a buffer
RECURSIVE SumBytes(_)
SumBytes(buf) == IF buf = <<>> THEN 0 ELSE ByteLength(Head(buf)) + SumBytes(Tail(buf))

\* \s of a JavaScript regular expression, over the characters used here
IsSpace(c) == c \in {" ", "TAB", "CR", "LF"}

\* a line terminator, where $ of a multiline regular expression matches
IsLineTerm(c) == c \in {"CR", "LF"}

\* text.split(/\r?\n/): the lines of a chunk; a CR right before a LF goes
\* with the separator. `cur` is the line being collected.
RECURSIVE SplitFrom(_, _)
SplitFrom(text, cur) ==
  IF text = <<>> THEN <<cur>>
  ELSE IF Head(text) = "LF" THEN <<cur>> \o SplitFrom(Tail(text), <<>>)
  ELSE IF Head(text) = "CR" /\ Len(text) >= 2 /\ text[2] = "LF"
       THEN <<cur>> \o SplitFrom(Tail(Tail(text)), <<>>)
  ELSE SplitFrom(Tail(text), Append(cur, Head(text)))

SplitLines(text) == SplitFrom(text, <<>>)

\* length of the match of [0-9;]*m at the head of text, 0 when there is none
RECURSIVE SgrTail(_)
SgrTail(text) ==
  IF text = <<>> THEN 0
  ELSE IF Head(text) = "m" THEN 1
  ELSE IF Head(text) \in {"0", "1", ";"}
       THEN (IF SgrTail(Tail(text)) = 0 THEN 0 ELSE 1 + SgrTail(Tail(text)))
  ELSE 0

\* s.replace(/\u001b\[[0-9;]*m/g, "")
RECURSIVE stripAnsi(_)
stripAnsi(s) ==
  IF s = <<>> THEN <<>>
  ELSE IF Head(s) = "ESC" /\ Len(s) >= 2 /\ s[2] = "[" /\ SgrTail(Tail(Tail(s))) > 0
       THEN stripAnsi(SubSeq(s, 3 + SgrTail(Tail(Tail(s))), Len(s)))
  ELSE <<Head(s)>> \o stripAnsi(Tail(s))

\* s.trimEnd()
RECURSIVE trimEnd(_)
trimEnd(s) ==
  IF s = <<>> THEN <<>>
  ELSE IF IsSpace(s[Len(s)]) THEN trimEnd(SubSeq(s, 1, Len(s) - 1))
  ELSE s

\* s.at(-1) || "" , as a string of zero or one character
LastOrEmpty(s) == IF s = <<>> THEN <<>> ELSE <<s[Len(s)]>>

\* "|/-\\".includes(x) for x of zero or one character ("" is included in
\* every string)
SpinnersInclude(x) == x = <<>> \/ x[1] \in {"|", "/", "-", "BSL"}

\* s.slice(0, -1)
DropLast(s) == IF s = <<>> THEN <<>> ELSE SubSeq(s, 1, Len(s) - 1)

isLikelySpinnerFrame(prev, next) ==
  LET a == trimEnd(stripAnsi(prev))
      b == trimEnd(stripAnsi(next))
  IN  IF Len(a) # Len(b) THEN FALSE
      ELSE IF ~SpinnersInclude(LastOrEmpty(a)) \/ ~SpinnersInclude(LastOrEmpty(b)) THEN FALSE
      ELSE DropLast(a) = DropLast(b)

\* /(\n|\r|^)PS [^\n>]+>\s$/m tested on s: "PS ", one or more characters
\* other than LF and ">", then ">", one white-space character, then the end
\* of the text or a line terminator; the match starts at the start of the
\* text, after a line terminator, or on a CR or LF that it consumes.
PowerShellRe(s) ==
  \E i \in 1..Len(s) :
    /\ i + 2 <= Len(s)
    /\ s[i] = "P" /\ s[i + 1] = "S" /\ s[i + 2] = " "
    /\ (i = 1 \/ IsLineTerm(s[i - 1]))
    /\ \E j \in (i + 4)..(Len(s) - 1) :
         /\ s[j] = ">"
         /\ \A k \in (i + 3)..(j - 1) : s[k] \notin {"LF", ">"}
         /\ IsSpace(s[j + 1])
         /\ (j + 1 = Len(s) \/ IsLineTerm(s[j + 2]))

\* /(\n|\r|^)[^\n]*[$#]\s$/m tested on s: any characters other than LF, then
\* "$" or "#", one white-space character, then the end of the text or a line
\* terminator.
PosixRe(s) ==
  \E i \in 1..(Len(s) - 1) :
    /\ s[i] \in {"$", "#"}
    /\ IsSpace(s[i + 1])
    /\ (i + 1 = Len(s) \/ IsLineTerm(s[i + 2]))
    /\ \E st \in 1..i :
         /\ (st = 1 \/ IsLineTerm(s[st - 1]))
         /\ \A k \in st..(i - 1) : s[k] # "LF"

\* promptRe.test(line) for a pattern of COMMON_PROMPTS, by name
ReTest(re, s) ==
  CASE re = "PowerShell" -> PowerShellRe(s)
    [] re = "Posix"      -> PosixRe(s)
    [] OTHER             -> FALSE

\* detectPrompt(line): the first pattern of COMMON_PROMPTS that matches the
\* ANSI-stripped line, "undefined" when none does
detectPrompt(line) ==
  LET clean == stripAnsi(line)
  IN  IF PowerShellRe(clean) THEN "PowerShell"
      ELSE IF PosixRe(clean) THEN "Posix"
      ELSE "undefined"

\* looksFinished(line): some pattern of FINISH_PATTERNS matches the line; of
\* the texts they match, the characters used here can spell the check mark
\* only
looksFinished(line) == \E i \in 1..Len(line) : line[i] = "U2713"

(* ------------------------------ inputs --------------------------------- *)

\* ids that Math.random().toString(36).slice(2) can yield: the id of the
\* session of a server that serves one run, and the ids of the sessions of
\* a server that serves two
SessionIds == {"s1"}
PairIds == {"s1", "s2"}

\* chunks an adapter can deliver: a POSIX prompt, a line of output, and the
\* check mark (one character, three bytes)
Chunks == { <<"$", " ">>, <<"a", "LF">>, <<"U2713">> }

\* arguments of terminal.run (times in ms, buffer cap in bytes)
RunInputs ==
  { [timeoutMs |-> 3000, quietMs |-> 300,  waitingMs |-> 1000, stuckMs |-> 2000, maxBufferBytes |-> 4],
    [timeoutMs |-> 2000, quietMs |-> 1000, waitingMs |-> 0,    stuckMs |-> 0,    maxBufferBytes |-> 2],
    [timeoutMs |-> 0,    quietMs |-> 0,    waitingMs |-> 2000, stuckMs |-> 1000, maxBufferBytes |-> 4] }


(* ------------------------------- state --------------------------------- *)

VARIABLES
  now,      \* Date.now()
  usePty,   \* process.env.USE_PTY === "1" and node-pty loads
  created,  \* ids of the sessions store.newSession() has made
  store,    \* keys of SessionStore.map
  sess,     \* the Session objects, by id
  call,     \* the closure of each terminal.run invocation, by session id
  proc,     \* the spawned process behind each adapter, by session id
  progress, \* the progress messages emitted for each run, by session id
  received, \* every chunk delivered to each session, in arrival order
  terminalAt, \* when each session's status first was completed or error
  reply,    \* the response to the tool call served in the latest step
  raw       \* the line read from stdin that is being dispatched

vars == <<now, usePty, created, store, sess, call, proc, progress, received,
          terminalAt, reply, raw>>

\* a timer handle: `set` when the field holds a handle, `live` while the
\* event loop still has it scheduled, `at` its deadline
NoTimer == [set |-> FALSE, live |-> FALSE, at |-> 0]
Timer(at) == [set |-> TRUE, live |-> TRUE, at |-> at]

\* clearTimeout(t) / clearInterval(t): the handle stays in its field
Cleared(t) == IF t.set THEN [set |-> TRUE, live |-> FALSE, at |-> 0] ELSE t

Due(t) == t.live /\ t.at <= now

\* SessionStore.newSession: the object it builds
newSession ==
  [ buf |-> <<>>, lastByteAt |-> now, status |-> "idle", totalBytes |-> 0,
    maxBufferBytes |-> DefaultCap, errorReason |-> "undefined",
    promptRe |-> "undefined", quietTimer |-> NoTimer, idleTimer |-> NoTimer,
    exitCode |-> "undefined", exitSignal |-> "undefined", adapter |-> "undefined" ]

NoResult == [success |-> FALSE, exitCode |-> "undefined", error |-> "undefined", output |-> <<>>]

NoCall ==
  [ pc |-> "none", in |-> CHOOSE i \in RunInputs : TRUE, lastLine |-> <<>>,
    timeoutId |-> NoTimer, removeTimers |-> 0, removeAt |-> 0, result |-> NoResult,
    sink |-> 0 ]

NoProc ==
  [ state |-> "none", kills |-> {}, stdin |-> <<>>, delivered |-> 0, frames |-> 0,
    exitedAt |-> 0 ]

Terminal(st) == st \in {"completed", "error"}

\* terminalAt of a session that has not been completed or error yet
Never == -1

\* no tool call other than run was served; dispatch returned null
NoReply == [tool |-> "none", id |-> "none", ok |-> FALSE, body |-> "none"]

\* no line is being dispatched
NoLine == [kind |-> "none"]

Init ==
  /\ now = 0
  /\ usePty \in BOOLEAN
  /\ created = {}
  /\ store = {}
  /\ sess = [s \in PairIds |-> newSession]
  /\ call = [s \in PairIds |-> NoCall]
  /\ proc = [s \in PairIds |-> NoProc]
  /\ progress = [s \in PairIds |-> <<>>]
  /\ received = [s \in PairIds |-> <<>>]
  /\ terminalAt = [s \in PairIds |-> Never]
  /\ reply = NoReply
  /\ raw = NoLine

(* --------------------------- heuristics engine ------------------------- *)

\* scheduleQuietComplete(sess, delayMs): clear the pending quiet timer and
\* arm a new one
scheduleQuietComplete(se, delayMs) == [se EXCEPT !.quietTimer = Timer(now + delayMs)]

\* the onComplete argument of scheduleQuietComplete: both callers pass two
\* arguments only
onComplete == "undefined"

\* a quiet-complete callback that does not look at the status
QuietCallback_unguarded(se) ==
  [se EXCEPT !.status = "completed", !.idleTimer = Cleared(@)]

\* the callback scheduleQuietComplete arms, on the session
QuietCallback(se) ==
  IF se.status # "completed" /\ se.status # "error"
  THEN [se EXCEPT !.status = "completed", !.idleTimer = Cleared(@)]
  ELSE se

\* classification that looks for a prompt pattern on every line, also
\* when the session has one
ClassifyLine_redetect(x, line, quietMs) ==
  IF line # <<>> /\ isLikelySpinnerFrame(x.lastLine, line) THEN x
  ELSE LET p == IF detectPrompt(line) # "undefined" THEN detectPrompt(line) ELSE x.se.promptRe
           withRe == [x.se EXCEPT !.promptRe = p]
       IN  [ se |-> IF p # "undefined" /\ ReTest(p, line)
                    THEN scheduleQuietComplete(withRe, quietMs)
                    ELSE withRe,
             lastLine |-> line ]

\* classification that skips a spinner frame but remembers it as the last
\* line
ClassifyLine_trackFrames(x, line, quietMs) ==
  IF line # <<>> /\ isLikelySpinnerFrame(x.lastLine, line) THEN [x EXCEPT !.lastLine = line]
  ELSE LET p == IF x.se.promptRe = "undefined" THEN detectPrompt(line) ELSE x.se.promptRe
           withRe == [x.se EXCEPT !.promptRe = p]
       IN  [ se |-> IF p # "undefined" /\ ReTest(p, line)
                    THEN scheduleQuietComplete(withRe, quietMs)
                    ELSE withRe,
             lastLine |-> line ]

\* classification that takes a finish phrase for the end of the command and
\* arms the quiet timer on it
ClassifyLine_finishCompletes(x, line, quietMs) ==
  IF line # <<>> /\ isLikelySpinnerFrame(x.lastLine, line) THEN x
  ELSE LET p == IF x.se.promptRe = "undefined" THEN detectPrompt(line) ELSE x.se.promptRe
           withRe == [x.se EXCEPT !.promptRe = p]
       IN  [ se |-> IF (p # "undefined" /\ ReTest(p, line)) \/ looksFinished(line)
                    THEN scheduleQuietComplete(withRe, quietMs)
                    ELSE withRe,
             lastLine |-> line ]

\* one iteration of the `for (const line of lines)` loop of onChunk;
\* x = [se |-> session, lastLine |-> lastLine of the closure]
ClassifyLine(x, line, quietMs) ==
  IF line # <<>> /\ isLikelySpinnerFrame(x.lastLine, line) THEN x
  ELSE LET p == IF x.se.promptRe = "undefined" THEN detectPrompt(line) ELSE x.se.promptRe
           withRe == [x.se EXCEPT !.promptRe = p]
       IN  [ se |-> IF p # "undefined" /\ ReTest(p, line)
                    THEN scheduleQuietComplete(withRe, quietMs)
                    ELSE withRe,
             lastLine |-> line ]

RECURSIVE ClassifyLines(_, _, _)
ClassifyLines(x, lines, quietMs) ==
  IF lines = <<>> THEN x
  ELSE ClassifyLines(ClassifyLine(x, Head(lines), quietMs), Tail(lines), quietMs)

\* TrimBuffer with the built-in default as the cap, whatever the session's
\* maxBufferBytes is
RECURSIVE TrimBuffer_defaultCap(_)
TrimBuffer_defaultCap(se) ==
  IF se.totalBytes > DefaultCap /\ Len(se.buf) > 1
  THEN TrimBuffer_defaultCap([se EXCEPT !.buf = Tail(@),
                                        !.totalBytes = @ - ByteLength(Head(se.buf))])
  ELSE se

\* TrimBuffer with buf.pop() for buf.shift(): the newest chunk is dropped
RECURSIVE TrimBuffer_pop(_)
TrimBuffer_pop(se) ==
  LET cap == IF se.maxBufferBytes # 0 THEN se.maxBufferBytes ELSE DefaultCap
  IN  IF se.totalBytes > cap /\ Len(se.buf) > 1
      THEN TrimBuffer_pop([se EXCEPT !.buf = SubSeq(@, 1, Len(@) - 1),
                                     !.totalBytes = @ - ByteLength(se.buf[Len(se.buf)])])
      ELSE se

\* the while loop of onChunk: drop the oldest chunks while over the cap
RECURSIVE TrimBuffer(_)
TrimBuffer(se) ==
  LET cap == IF se.maxBufferBytes # 0 THEN se.maxBufferBytes ELSE DefaultCap
  IN  IF se.totalBytes > cap /\ Len(se.buf) > 1
      THEN TrimBuffer([se EXCEPT !.buf = Tail(@),
                                 !.totalBytes = @ - ByteLength(Head(se.buf))])
      ELSE se

\* AppendChunk counting text.length (UTF-16 units) for the byte length
AppendChunk_length(se, text) ==
  TrimBuffer([se EXCEPT !.buf = Append(@, text),
                        !.totalBytes = @ + Len(text)])

\* sess.buf.push(text); sess.totalBytes += byteLength(text); trim
AppendChunk(se, text) ==
  TrimBuffer([se EXCEPT !.buf = Append(@, text),
                        !.totalBytes = @ + ByteLength(text)])

\* onChunk that takes a waiting or possibly-stuck session back to running
onChunk_resume(x, text, quietMs) ==
  LET c == ClassifyLines(x, SplitLines(text), quietMs)
  IN  [ se |-> [AppendChunk(c.se, text) EXCEPT
                  !.lastByteAt = now,
                  !.status = IF @ \in {"waiting", "possibly-stuck"} THEN "running" ELSE @],
        lastLine |-> c.lastLine ]

\* wireHeuristics(...).onChunk(text), on x = [se, lastLine]
onChunk(x, text, quietMs) ==
  LET c == ClassifyLines(x, SplitLines(text), quietMs)
  IN  [ se |-> [AppendChunk(c.se, text) EXCEPT !.lastByteAt = now],
        lastLine |-> c.lastLine ]

\* IdleCallback that also takes a session back to running once output has
\* resumed
IdleCallback_demote(y, waitingMs, stuckMs) ==
  LET idle == now - y.se.lastByteAt
  IN  IF y.se.status \in {"waiting", "possibly-stuck"} /\ idle <= waitingMs
      THEN [se |-> [y.se EXCEPT !.status = "running"], msgs |-> y.msgs]
      ELSE IF y.se.status = "running" /\ idle > waitingMs
      THEN [se |-> [y.se EXCEPT !.status = "waiting"], msgs |-> Append(y.msgs, "waiting")]
      ELSE y

\* IdleCallback that takes a possibly-stuck session back to waiting once it
\* is no longer idle beyond stuckMs
IdleCallback_toWaiting(y, waitingMs, stuckMs) ==
  LET idle == now - y.se.lastByteAt
      a == IF y.se.status = "running" /\ idle > waitingMs
           THEN [se |-> [y.se EXCEPT !.status = "waiting"], msgs |-> Append(y.msgs, "waiting")]
           ELSE y
  IN  IF (a.se.status = "waiting" \/ a.se.status = "running") /\ idle > stuckMs
      THEN [se |-> [a.se EXCEPT !.status = "possibly-stuck"], msgs |-> Append(a.msgs, "stuck")]
      ELSE IF a.se.status = "possibly-stuck" /\ idle <= stuckMs
      THEN [se |-> [a.se EXCEPT !.status = "waiting"], msgs |-> a.msgs]
      ELSE a

\* IdleCallback that classifies as soon as the idle time reaches a threshold
IdleCallback_atLeast(y, waitingMs, stuckMs) ==
  LET idle == now - y.se.lastByteAt
      a == IF y.se.status = "running" /\ idle >= waitingMs
           THEN [se |-> [y.se EXCEPT !.status = "waiting"], msgs |-> Append(y.msgs, "waiting")]
           ELSE y
  IN  IF (a.se.status = "waiting" \/ a.se.status = "running") /\ idle >= stuckMs
      THEN [se |-> [a.se EXCEPT !.status = "possibly-stuck"], msgs |-> Append(a.msgs, "stuck")]
      ELSE a

\* IdleCallback that reports a session as waiting on every tick on which it
\* is idle beyond waitingMs, not only on the tick on which it leaves running
IdleCallback_everyTick(y, waitingMs, stuckMs) ==
  LET idle == now - y.se.lastByteAt
      a == IF (y.se.status = "running" \/ y.se.status = "waiting") /\ idle > waitingMs
           THEN [se |-> [y.se EXCEPT !.status = "waiting"], msgs |-> Append(y.msgs, "waiting")]
           ELSE y
  IN  IF (a.se.status = "waiting" \/ a.se.status = "running") /\ idle > stuckMs
      THEN [se |-> [a.se EXCEPT !.status = "possibly-stuck"], msgs |-> Append(a.msgs, "stuck")]
      ELSE a

\* the setInterval callback of startIdleTimers, on y = [se, msgs]
IdleCallback(y, waitingMs, stuckMs) ==
  LET idle == now - y.se.lastByteAt
      a == IF y.se.status = "running" /\ idle > waitingMs
           THEN [se |-> [y.se EXCEPT !.status = "waiting"], msgs |-> Append(y.msgs, "waiting")]
           ELSE y
  IN  IF (a.se.status = "waiting" \/ a.se.status = "running") /\ idle > stuckMs
      THEN [se |-> [a.se EXCEPT !.status = "possibly-stuck"], msgs |-> Append(a.msgs, "stuck")]
      ELSE a

(* ------------------------------ terminal.run --------------------------- *)

\* cleanup that removes the session from the store without a grace period
cleanup_noGrace(z) ==
  [ se |-> [z.se EXCEPT !.quietTimer = NoTimer, !.idleTimer = NoTimer],
    ca |-> [z.ca EXCEPT !.removeTimers = @ + 1, !.removeAt = now] ]

\* the cleanup closure of invoke, on z = [se, ca]
cleanup(z) ==
  [ se |-> [z.se EXCEPT !.quietTimer = NoTimer, !.idleTimer = NoTimer],
    ca |-> [z.ca EXCEPT !.removeTimers = @ + 1, !.removeAt = now + GraceMs] ]

\* resolve(result) / reject(error) of the promise invoke returns: only the
\* first settlement counts
Resolve(ca, result) ==
  IF ca.pc = "pending" THEN [ca EXCEPT !.pc = "resolved", !.result = result] ELSE ca

Reject(ca) == IF ca.pc = "pending" THEN [ca EXCEPT !.pc = "rejected"] ELSE ca

\* the setTimeout callback of the run timeout, on w = [se, pr]
TimeoutCallback(w) ==
  IF w.se.status = "running" \/ w.se.status = "waiting"
  THEN [ se |-> [w.se EXCEPT !.status = "error", !.errorReason = "Command timed out"],
         pr |-> [w.pr EXCEPT !.kills = @ \cup {"SIGTERM"}] ]
  ELSE w

\* the first proc.onExit callback, on z = [se, ca]
ExitHandler1(z, code, signal) ==
  LET se1 == [z.se EXCEPT !.status = IF code = "0" THEN "completed" ELSE "error",
                          !.exitCode = code, !.exitSignal = signal]
      c == cleanup([se |-> se1, ca |-> [z.ca EXCEPT !.timeoutId = Cleared(@)]])
  IN  [ se |-> c.se,
        ca |-> Resolve(c.ca, [ success |-> code = "0", exitCode |-> code,
                               error |-> IF code # "0" THEN "Process exited" ELSE "undefined",
                               output |-> Join(c.se.buf) ]) ]

\* a second exit callback that reports every exit as completed
ExitHandler2_completed(z, code, signal) ==
  LET isError == code # "0" \/ signal # "null"
      se1 == [z.se EXCEPT !.status = "completed",
                          !.exitCode = code, !.exitSignal = signal,
                          !.errorReason = IF isError THEN "Process exited" ELSE @]
      ca1 == [z.ca EXCEPT !.timeoutId = Cleared(@)]
      ca2 == IF isError THEN Reject(ca1)
             ELSE Resolve(ca1, [ success |-> TRUE, exitCode |-> code,
                                 error |-> "undefined", output |-> Join(se1.buf) ])
  IN  cleanup([se |-> se1, ca |-> ca2])

\* the second proc.onExit callback, on z = [se, ca]
ExitHandler2(z, code, signal) ==
  LET isError == code # "0" \/ signal # "null"
      se1 == [z.se EXCEPT !.status = IF isError THEN "error" ELSE "completed",
                          !.exitCode = code, !.exitSignal = signal,
                          !.errorReason = IF isError THEN "Process exited" ELSE @]
      ca1 == [z.ca EXCEPT !.timeoutId = Cleared(@)]
      ca2 == IF isError THEN Reject(ca1)
             ELSE Resolve(ca1, [ success |-> TRUE, exitCode |-> code,
                                 error |-> "undefined", output |-> Join(se1.buf) ])
  IN  cleanup([se |-> se1, ca |-> ca2])

\* the signal names child.kill accepts; any other name makes it throw
OsSignals == {"SIGTERM", "SIGINT", "SIGKILL", "SIGHUP"}

\* the exit events the process behind an adapter can report: child_process
\* gives (code, null) or (null, signal); node-pty gives a signal number,
\* which maybeRunPTY turns into its decimal string
ExitEvents(pty, pr) ==
  IF pty
  THEN {[code |-> "0", signal |-> "0"], [code |-> "1", signal |-> "0"]}
       \cup (IF pr.kills # {} THEN {[code |-> "0", signal |-> "1"]} ELSE {})
  ELSE {[code |-> "0", signal |-> "null"], [code |-> "1", signal |-> "null"]}
       \cup {[code |-> "null", signal |-> k] : k \in pr.kills \cap OsSignals}

(* ------------------------------- actions ------------------------------- *)

\* terminalAt after a step on session s: the first instant at which its
\* status is completed or error
Stamp(s) ==
  [terminalAt EXCEPT ![s] =
     IF @ = Never /\ Terminal(sess'[s].status) THEN now ELSE @]

\* invoke, up to `await maybeRunPTY(...)`: store.newSession() and
\* session.maxBufferBytes = maxBufferBytes
RunCreate(s, in) ==
  /\ s \notin created
  /\ created' = created \cup {s}
  /\ store' = store \cup {s}
  /\ sess' = [sess EXCEPT ![s] = [newSession EXCEPT !.maxBufferBytes = in.maxBufferBytes]]
  /\ call' = [call EXCEPT ![s] = [NoCall EXCEPT !.pc = "spawning", !.in = in]]
  /\ UNCHANGED <<now, usePty, proc, progress, received, terminalAt>>
  /\ reply' = NoReply
  /\ UNCHANGED raw

\* invoke after maybeRunPTY returned an adapter: wire the heuristics, arm
\* the idle poll and the timeout, register the handlers, return the promise
RunSpawned(s) ==
  /\ call[s].pc = "spawning"
  /\ sess' = [sess EXCEPT ![s] =
       [@ EXCEPT !.adapter = "proc", !.status = "running",
                 !.maxBufferBytes = IF call[s].in.maxBufferBytes # 0
                                    THEN call[s].in.maxBufferBytes ELSE @,
                 !.idleTimer = Timer(now + IdlePollMs)]]
  /\ call' = [call EXCEPT ![s] =
       [@ EXCEPT !.pc = "pending", !.lastLine = <<>>,
                 !.timeoutId = IF call[s].in.timeoutMs > 0
                               THEN Timer(now + call[s].in.timeoutMs) ELSE NoTimer]]
  /\ proc' = [proc EXCEPT ![s] = [NoProc EXCEPT !.state = "alive"]]
  /\ UNCHANGED <<now, usePty, created, store, progress, received, terminalAt>>
  /\ reply' = NoReply
  /\ UNCHANGED raw

\* invoke when maybeRunPTY throws: the catch block
RunSpawnFailed(s) ==
  /\ call[s].pc = "spawning"
  /\ LET c == cleanup([se |-> sess[s], ca |-> call[s]])
     IN  /\ sess' = [sess EXCEPT ![s] =
                [c.se EXCEPT !.status = "error", !.errorReason = "Failed to start command"]]
         /\ call' = [call EXCEPT ![s] = [c.ca EXCEPT !.pc = "threw"]]
  /\ UNCHANGED <<now, usePty, created, store, proc, progress, received>>
  /\ terminalAt' = Stamp(s)
  /\ reply' = NoReply
  /\ UNCHANGED raw

\* every line of the chunk is a spinner frame of the last classified line:
\* the loop of onChunk skips them all
SpinnerChunk(lastLine, text) ==
  \A i \in 1..Len(SplitLines(text)) :
    SplitLines(text)[i] # <<>> /\ isLikelySpinnerFrame(lastLine, SplitLines(text)[i])

\* a proc.onData callback whose lastLine is one variable of the module,
\* shared by the heuristics of every session
OnData_sharedLastLine(s, text) ==
  /\ proc[s].state \in {"alive", "exited"}
  /\ IF SpinnerChunk(call[s].lastLine, text)
     THEN proc[s].frames < MaxFrames
     ELSE proc[s].delivered < MaxChunks
  /\ LET x == onChunk([se |-> sess[s], lastLine |-> call[s].lastLine], text,
                      call[s].in.quietMs)
     IN  /\ sess' = [sess EXCEPT ![s] = x.se]
         /\ call' = [t \in PairIds |-> [call[t] EXCEPT !.lastLine = x.lastLine]]
  /\ progress' = [progress EXCEPT ![s] = Append(@, "received")]
  /\ proc' = [proc EXCEPT ![s] =
       IF SpinnerChunk(call[s].lastLine, text)
       THEN [@ EXCEPT !.frames = @ + 1]
       ELSE [@ EXCEPT !.delivered = @ + 1]]
  /\ received' = [received EXCEPT ![s] = Append(@, text)]
  /\ UNCHANGED <<now, usePty, created, store, terminalAt>>
  /\ reply' = NoReply
  /\ UNCHANGED raw

\* the proc.onData callback of invoke
OnData(s, text) ==
  /\ proc[s].state \in {"alive", "exited"}
  /\ IF SpinnerChunk(call[s].lastLine, text)
     THEN proc[s].frames < MaxFrames
     ELSE proc[s].delivered < MaxChunks
  /\ LET x == onChunk([se |-> sess[s], lastLine |-> call[s].lastLine], text,
                      call[s].in.quietMs)
     IN  /\ sess' = [sess EXCEPT ![s] = x.se]
         /\ call' = [call EXCEPT ![s].lastLine = x.lastLine]
  /\ progress' = [progress EXCEPT ![s] = Append(@, "received")]
  /\ proc' = [proc EXCEPT ![s] =
       IF SpinnerChunk(call[s].lastLine, text)
       THEN [@ EXCEPT !.frames = @ + 1]
       ELSE [@ EXCEPT !.delivered = @ + 1]]
  /\ received' = [received EXCEPT ![s] = Append(@, text)]
  /\ UNCHANGED <<now, usePty, created, store, terminalAt>>
  /\ reply' = NoReply
  /\ UNCHANGED raw

\* exit callbacks that leave the run timeout armed
OnExit_keepTimeout(s, ev) ==
  /\ proc[s].state = "alive"
  /\ ev \in ExitEvents(usePty, proc[s])
  /\ LET z == ExitHandler2(ExitHandler1([se |-> sess[s], ca |-> call[s]],
                                        ev.code, ev.signal),
                           ev.code, ev.signal)
     IN  /\ sess' = [sess EXCEPT ![s] = z.se]
         /\ call' = [call EXCEPT ![s] = [z.ca EXCEPT !.timeoutId = call[s].timeoutId]]
  /\ proc' = [proc EXCEPT ![s].state = "exited", ![s].exitedAt = now]
  /\ UNCHANGED <<now, usePty, created, store, progress, received>>
  /\ terminalAt' = Stamp(s)
  /\ reply' = NoReply
  /\ UNCHANGED raw

\* the exit event ev of the process: both proc.onExit callbacks run, in
\* registration order
OnExit(s, ev) ==
  /\ proc[s].state = "alive"
  /\ ev \in ExitEvents(usePty, proc[s])
  /\ LET z == ExitHandler2(ExitHandler1([se |-> sess[s], ca |-> call[s]],
                                        ev.code, ev.signal),
                           ev.code, ev.signal)
     IN  /\ sess' = [sess EXCEPT ![s] = z.se]
         /\ call' = [call EXCEPT ![s] = z.ca]
  /\ proc' = [proc EXCEPT ![s].state = "exited", ![s].exitedAt = now]
  /\ UNCHANGED <<now, usePty, created, store, progress, received>>
  /\ terminalAt' = Stamp(s)
  /\ reply' = NoReply
  /\ UNCHANGED raw

\* the quiet-complete timer fires: the callback sets the status and runs
\* onComplete?.(), counted in call[s].sink
QuietFire(s) ==
  /\ Due(sess[s].quietTimer)
  /\ sess' = [sess EXCEPT ![s] = QuietCallback([@ EXCEPT !.quietTimer = Cleared(@)])]
  /\ call' = [call EXCEPT ![s].sink =
       IF ~Terminal(sess[s].status) /\ onComplete # "undefined" THEN @ + 1 ELSE @]
  /\ UNCHANGED <<now, usePty, created, store, proc, progress, received>>
  /\ terminalAt' = Stamp(s)
  /\ reply' = NoReply
  /\ UNCHANGED raw

\* the idle poll fires and is due again one period later
IdleFire(s) ==
  /\ Due(sess[s].idleTimer)
  /\ LET y == IdleCallback([se |-> [sess[s] EXCEPT !.idleTimer = Timer(now + IdlePollMs)],
                            msgs |-> progress[s]],
                           call[s].in.waitingMs, call[s].in.stuckMs)
     IN  /\ sess' = [sess EXCEPT ![s] = y.se]
         /\ progress' = [progress EXCEPT ![s] = y.msgs]
  /\ UNCHANGED <<now, usePty, created, store, call, proc, received, terminalAt>>
  /\ reply' = NoReply
  /\ UNCHANGED raw

\* the run timeout fires
TimeoutFire(s) ==
  /\ Due(call[s].timeoutId)
  /\ LET w == TimeoutCallback([se |-> sess[s], pr |-> proc[s]])
     IN  /\ sess' = [sess EXCEPT ![s] = w.se]
         /\ proc' = [proc EXCEPT ![s] = w.pr]
  /\ call' = [call EXCEPT ![s].timeoutId = Cleared(@)]
  /\ UNCHANGED <<now, usePty, created, store, progress, received>>
  /\ terminalAt' = Stamp(s)
  /\ reply' = NoReply
  /\ UNCHANGED raw

\* a timer armed by cleanup fires: store.remove(session.id)
RemoveFire(s) ==
  /\ call[s].removeTimers > 0
  /\ call[s].removeAt <= now
  /\ store' = store \ {s}
  /\ call' = [call EXCEPT ![s].removeTimers = @ - 1]
  /\ UNCHANGED <<now, usePty, created, sess, proc, progress, received, terminalAt>>
  /\ reply' = NoReply
  /\ UNCHANGED raw

\* the process exits, with one of the exit events it can report
Exit(s) == \E ev \in ExitEvents(usePty, proc[s]) : OnExit(s, ev)

(* ------------------------------ tool calls ----------------------------- *)

\* session ids a tool call can name; an id is unknown to the store before
\* its run and after its removal
ToolIds == SessionIds

\* the `tail` argument of terminal.status
Tails == {1, 2000}

\* the `data` argument of terminal.write
WriteData == { <<"y", "LF">> }

\* the `signal` argument of terminal.signal ("undefined": left out)
SignalNames == {"undefined", "CTRL_C"}

\* store.get(id) that keeps returning a session after store.remove(id)
found_created(id) == id \in created

\* store.get(id) returns a session
found(id) == id \in store

\* a tool's return value, as tools/call and dispatch send it
Ok(tool, id, body) == [tool |-> tool, id |-> id, ok |-> TRUE, body |-> body]

\* an error thrown by a tool, as dispatch sends it (code -32000)
Err(tool, id, message) == [tool |-> tool, id |-> id, ok |-> FALSE, body |-> message]

\* s.split('\n')[0]
RECURSIVE FirstLine(_)
FirstLine(text) ==
  IF text = <<>> \/ Head(text) = "LF" THEN <<>>
  ELSE <<Head(text)>> \o FirstLine(Tail(text))

\* terminal.status that hands the buffered output over and empties the
\* buffer
statusTool_drain(se, tail) ==
  [ se |-> [se EXCEPT !.buf = <<>>, !.totalBytes = 0],
    body |-> [status |-> se.status, exitCode |-> se.exitCode, output |-> Join(se.buf)] ]

\* terminal.status on a session that was found: the session afterwards and
\* the value returned (the tool reads no `tail`)
statusTool(se, tail) ==
  [ se |-> se,
    body |-> [status |-> se.status, exitCode |-> se.exitCode, output |-> Join(se.buf)] ]

\* terminal.attach on a session that was found
attachTool(id, se) ==
  [ se |-> se,
    body |-> [sessionId |-> id, output |-> Join(se.buf), status |-> se.status] ]

\* terminal.list: the sessions afterwards and the value returned
listTool(ss, ids) ==
  [ ss |-> ss,
    body |-> { [ id |-> i, status |-> ss[i].status,
                 command |-> FirstLine(Join(ss[i].buf)),
                 lastActivity |-> ss[i].lastByteAt ] : i \in ids } ]

\* the guard of terminal.write and terminal.signal: `session?.adapter`
active(id) == found(id) /\ sess[id].adapter # "undefined"

\* the adapter of session id can take one more call
Room(id) == Len(proc[id].stdin) + Cardinality(proc[id].kills) < MaxCalls

\* terminal.write past its guard: session.adapter.write(data)
writeTool(pr, data) == [pr EXCEPT !.stdin = Append(@, data)]

\* terminal.signal past its guard: session.adapter.kill(signal), with
\* SIGTERM when the argument is left out. The PTY adapter ignores the name;
\* child.kill throws on a name that is not a signal.
signalTool(pr, signal, pty) ==
  LET sig == IF signal = "undefined" THEN "SIGTERM" ELSE signal
  IN  [ pr |-> [pr EXCEPT !.kills = @ \cup {sig}],
        threw |-> ~pty /\ sig \notin OsSignals ]

Status(id, tail) ==
  /\ IF found(id)
     THEN LET r == statusTool(sess[id], tail)
          IN  /\ sess' = [sess EXCEPT ![id] = r.se]
              /\ reply' = Ok("status", id, r.body)
     ELSE /\ sess' = sess
          /\ reply' = Err("status", id, "Session not found")
  /\ UNCHANGED <<now, usePty, created, store, call, proc, progress, received, terminalAt, raw>>

Attach(id) ==
  /\ IF found(id)
     THEN LET r == attachTool(id, sess[id])
          IN  /\ sess' = [sess EXCEPT ![id] = r.se]
              /\ reply' = Ok("attach", id, r.body)
     ELSE /\ sess' = sess
          /\ reply' = Err("attach", id, "Session not found")
  /\ UNCHANGED <<now, usePty, created, store, call, proc, progress, received, terminalAt, raw>>

List ==
  /\ LET r == listTool(sess, store)
     IN  /\ sess' = r.ss
         /\ reply' = Ok("list", "none", r.body)
  /\ UNCHANGED <<now, usePty, created, store, call, proc, progress, received, terminalAt, raw>>

Write(id, data) ==
  /\ active(id) => Room(id)
  /\ IF active(id)
     THEN /\ proc' = [proc EXCEPT ![id] = writeTool(@, data)]
          /\ reply' = Ok("write", id, [success |-> TRUE])
     ELSE /\ proc' = proc
          /\ reply' = Err("write", id, "Session not found or not active")
  /\ UNCHANGED <<now, usePty, created, store, sess, call, progress, received, terminalAt, raw>>

Signal(id, signal) ==
  /\ active(id) => Room(id)
  /\ IF active(id)
     THEN LET r == signalTool(proc[id], signal, usePty)
          IN  /\ proc' = [proc EXCEPT ![id] = r.pr]
              /\ reply' = IF r.threw THEN Err("signal", id, "Unknown signal")
                                     ELSE Ok("signal", id, [success |-> TRUE])
     ELSE /\ proc' = proc
          /\ reply' = Err("signal", id, "Session not found or not active")
  /\ UNCHANGED <<now, usePty, created, store, sess, call, progress, received, terminalAt, raw>>

(* ------------------------------- JSON-RPC ------------------------------- *)

\* names of the tools array of startServer, in order: the tool of
\* TerminalAwareness.getTools() first, then the six session tools
ToolNames ==
  << "terminal.run", "terminal.run", "terminal.status", "terminal.write",
     "terminal.signal", "terminal.list", "terminal.attach" >>

\* methods with a handler: rpc.on(...) of createMCPServer
Handlers == {"initialize", "tools/list", "tools/call"}

\* the `method` of a message; "NotAString" is a method that is no string
Methods == Handlers \cup {"nope", "NotAString"}

\* the `command` argument of a tools/call for "terminal.run": the shell
\* commands `true` (exit code 0) and `false` (exit code 1)
Commands == {"true", "false"}

\* lines read from stdin: text that is no JSON, the JSON text `null`, and
\* objects with a jsonrpc version, a method, an id ("undefined": none, a
\* notification) and, for tools/call, the name of a tool; tools/call names
\* the run tool with a command, a query tool with session id "s1", or a
\* tool that is not registered
RpcMessages ==
  {[kind |-> "garbage"], [kind |-> "null"]}
  \cup { m \in [ kind : {"object"}, jsonrpc : {"2.0", "1.0"}, method : Methods,
                 id : {"undefined", "1", "2"},
                 name : {"terminal.run", "terminal.list", "terminal.status", "nope"},
                 command : Commands,
                 sessionId : SessionIds ] :
           /\ m.method = "tools/call" \/ m.name = "nope"
           /\ m.name = "terminal.run" \/ m.command = "true" }

\* a response with a result / with an error, as dispatch serialises them
RpcResult(id, result) == [tool |-> "rpc", id |-> id, ok |-> TRUE, body |-> result]
RpcError(id, code, message) ==
  [tool |-> "rpc", id |-> id, ok |-> FALSE, body |-> [code |-> code, message |-> message]]

\* tools.find(t => t.name === name): the position in the tools array of the
\* first tool of that name, 0 when there is none
find(name) ==
  IF \A i \in 1..Len(ToolNames) : ToolNames[i] # name THEN 0
  ELSE CHOOSE i \in 1..Len(ToolNames) :
         ToolNames[i] = name /\ \A j \in 1..(i - 1) : ToolNames[j] # name

\* position of createRunTool() in the tools array
RunToolAt == 2

\* TerminalAwareness.executeCommand: exec of the command, its result
executeCommand(command) ==
  IF command = "true"
  THEN [output |-> <<>>, exitCode |-> "0", success |-> TRUE]
  ELSE [output |-> <<"Command failed: false", "LF">>, exitCode |-> "1", success |-> FALSE]

\* the tools/call handler for a tool other than createRunTool(): tools.find
\* by name, then the tool's invoke, its value wrapped as { content: [value] }
toolsCall(msg) ==
  CASE find(msg.name) = 0 -> [threw |-> TRUE, value |-> "Unknown tool"]
    [] find(msg.name) = 1 ->
         [threw |-> FALSE, value |-> [content |-> <<executeCommand(msg.command)>>]]
    [] find(msg.name) = 3 ->
         IF found(msg.sessionId)
         THEN [ threw |-> FALSE,
                value |-> [content |-> <<statusTool(sess[msg.sessionId], 2000).body>>] ]
         ELSE [threw |-> TRUE, value |-> "Session not found"]
    [] find(msg.name) = 6 ->
         [threw |-> FALSE, value |-> [content |-> <<listTool(sess, store).body>>]]

\* the handler registered for a method, run on a message
handle(msg) ==
  CASE msg.method = "initialize" ->
         [threw |-> FALSE, value |-> [protocol |-> "mcp-lite"]]
    [] msg.method = "tools/list" ->
         [threw |-> FALSE, value |-> [tools |-> ToolNames]]
    [] msg.method = "tools/call" -> toolsCall(msg)

\* JSONRPCServer.dispatch(raw): the response, NoReply when it returns null
dispatch(msg) ==
  IF msg.kind = "garbage" THEN NoReply
  ELSE IF msg.kind = "null" THEN NoReply
  ELSE IF msg.jsonrpc # "2.0" \/ msg.method = "NotAString" THEN NoReply
  ELSE IF msg.method \notin Handlers
       THEN (IF msg.id # "undefined"
             THEN RpcError(msg.id, -32601, "Method not found")
             ELSE NoReply)
  ELSE LET h == handle(msg)
       IN  IF msg.id = "undefined" THEN NoReply
           ELSE IF h.threw THEN RpcError(msg.id, -32000, h.value)
           ELSE RpcResult(msg.id, h.value)

\* readline delivers a line to the transport
Receive(msg) ==
  /\ raw = NoLine
  /\ raw' = msg
  /\ reply' = NoReply
  /\ UNCHANGED <<now, usePty, created, store, sess, call, proc, progress, received, terminalAt>>

\* the line is a request that tools/call hands to the tool at position i of
\* the tools array
Invokes(msg, i) ==
  /\ msg.kind = "object" /\ msg.jsonrpc = "2.0" /\ msg.method = "tools/call"
  /\ find(msg.name) = i

\* rpc.dispatch(line). A request handed to createRunTool() starts invoke,
\* which makes a session and answers when its promise settles; every other
\* line is answered at once, by tools that change no session.
Dispatch ==
  /\ raw # NoLine
  /\ raw' = NoLine
  /\ IF Invokes(raw, RunToolAt)
     THEN /\ \E s \in SessionIds \ created, in \in RunInputs :
               /\ created' = created \cup {s}
               /\ store' = store \cup {s}
               /\ sess' = [sess EXCEPT ![s] =
                      [newSession EXCEPT !.maxBufferBytes = in.maxBufferBytes]]
               /\ call' = [call EXCEPT ![s] = [NoCall EXCEPT !.pc = "spawning", !.in = in]]
          /\ reply' = NoReply
     ELSE /\ reply' = dispatch(raw)
          /\ UNCHANGED <<created, store, sess, call>>
  /\ UNCHANGED <<now, usePty, proc, progress, received, terminalAt>>

(* -------------------------------- clock -------------------------------- *)

\* deadlines of the one-shot timers that are pending
OneShotDeadlines ==
  {sess[s].quietTimer.at : s \in {x \in PairIds : sess[x].quietTimer.live}}
  \cup {call[s].timeoutId.at : s \in {x \in PairIds : call[x].timeoutId.live}}
  \cup {call[s].removeAt : s \in {x \in PairIds : call[x].removeTimers > 0}}

\* deadlines of the idle polls that are pending
IdleDeadlines == {sess[s].idleTimer.at : s \in {x \in PairIds : sess[x].idleTimer.live}}

SetMin(S) == CHOOSE m \in S : \A n \in S : m <= n

\* the instants the clock can move to next
NextInstants ==
  OneShotDeadlines
  \cup {d \in IdleDeadlines : d <= Horizon}
  \cup {t \in {now + IdlePollMs} : t <= Horizon}

\* time passes, up to the next pending deadline; a timer that is due fires
\* before time passes. The clock is read only by sessions, so it is started
\* by the first run.
Advance ==
  /\ created # {}
  /\ \A d \in OneShotDeadlines \cup IdleDeadlines : d > now
  /\ NextInstants # {}
  /\ now' = SetMin(NextInstants)
  /\ UNCHANGED <<usePty, created, store, sess, call, proc, progress, received, terminalAt>>
  /\ reply' = NoReply
  /\ UNCHANGED raw

Next ==
  \/ \E s \in SessionIds, in \in RunInputs : RunCreate(s, in)
  \/ \E s \in SessionIds : RunSpawned(s)
  \/ \E s \in SessionIds : RunSpawnFailed(s)
  \/ \E s \in SessionIds, text \in Chunks : OnData(s, text)
  \/ \E s \in SessionIds : Exit(s)
  \/ \E s \in SessionIds : QuietFire(s)
  \/ \E s \in SessionIds : IdleFire(s)
  \/ \E s \in SessionIds : TimeoutFire(s)
  \/ \E s \in SessionIds : RemoveFire(s)
  \/ Advance

Spec == Init /\ [][Next]_vars

\* the run arguments and the chunks of the specification with tool calls:
\* a run without timeout, whose process prints prompts
ToolRunInputs == {in \in RunInputs : in.timeoutMs = 0}
ToolChunks == { <<"$", " ">> }

\* the server with every tool: run and the events of its session, and the
\* calls of status, attach, list, write and signal
ToolNext ==
  \/ \E s \in SessionIds, in \in ToolRunInputs : RunCreate(s, in)
  \/ \E s \in SessionIds : RunSpawned(s)
  \/ \E s \in SessionIds : RunSpawnFailed(s)
  \/ \E s \in SessionIds, text \in ToolChunks : OnData(s, text)
  \/ \E s \in SessionIds : Exit(s)
  \/ \E s \in SessionIds : QuietFire(s)
  \/ \E s \in SessionIds : IdleFire(s)
  \/ \E s \in SessionIds : RemoveFire(s)
  \/ Advance
  \/ \E id \in ToolIds, tail \in Tails : Status(id, tail)
  \/ \E id \in ToolIds : Attach(id)
  \/ List
  \/ \E id \in ToolIds, data \in WriteData : Write(id, data)
  \/ \E id \in ToolIds, signal \in SignalNames : Signal(id, signal)

ToolSpec == Init /\ [][ToolNext]_vars

\* chunks of a process that prints prompts of both kinds: a POSIX prompt, a
\* PowerShell prompt and a line of output; and a POSIX prompt followed by
\* the SGR reset sequence, as a coloured prompt ends
PromptChunks ==
  { <<"$", " ">>, <<"P", "S", " ", "x", ">", " ">>, <<"a", "LF">>,
    <<"$", " ", "ESC", "[", "0", "m">> }

\* a run without timeout whose process prints prompts of both kinds
PromptNext ==
  \/ \E s \in SessionIds, in \in ToolRunInputs : RunCreate(s, in)
  \/ \E s \in SessionIds : RunSpawned(s)
  \/ \E s \in SessionIds : RunSpawnFailed(s)
  \/ \E s \in SessionIds, text \in PromptChunks : OnData(s, text)
  \/ \E s \in SessionIds : Exit(s)
  \/ \E s \in SessionIds : QuietFire(s)
  \/ \E s \in SessionIds : IdleFire(s)
  \/ \E s \in SessionIds : RemoveFire(s)
  \/ Advance

PromptSpec == Init /\ [][PromptNext]_vars

\* chunks of a process that reports a finished step with a check mark and
\* prints a prompt
FinishChunks == { <<"U2713">>, <<"$", " ">> }

\* a run without timeout whose process reports finished steps
FinishNext ==
  \/ \E s \in SessionIds, in \in ToolRunInputs : RunCreate(s, in)
  \/ \E s \in SessionIds : RunSpawned(s)
  \/ \E s \in SessionIds : RunSpawnFailed(s)
  \/ \E s \in SessionIds, text \in FinishChunks : OnData(s, text)
  \/ \E s \in SessionIds : Exit(s)
  \/ \E s \in SessionIds : QuietFire(s)
  \/ \E s \in SessionIds : IdleFire(s)
  \/ \E s \in SessionIds : RemoveFire(s)
  \/ Advance

FinishSpec == Init /\ [][FinishNext]_vars

\* chunks of a process that repaints a spinner, pads with a blank and
\* prints a prompt
SpinnerChunks == { <<"w", "|">>, <<"w", "/">>, <<" ">>, <<"$", " ">> }

\* a run without timeout whose process starts, repaints a spinner and keeps
\* running
SpinnerNext ==
  \/ \E s \in SessionIds, in \in ToolRunInputs : RunCreate(s, in)
  \/ \E s \in SessionIds : RunSpawned(s)
  \/ \E s \in SessionIds, text \in SpinnerChunks : OnData(s, text)
  \/ \E s \in SessionIds : QuietFire(s)
  \/ \E s \in SessionIds : IdleFire(s)
  \/ Advance

SpinnerSpec == Init /\ [][SpinnerNext]_vars

\* the run arguments and the chunks of the server with two sessions: runs
\* with a timeout of one idle-poll period and thresholds of 0, whose
\* processes print prompts
PairRunInputs ==
  { [timeoutMs |-> 1000, quietMs |-> 0, waitingMs |-> 0, stuckMs |-> 0, maxBufferBytes |-> 2] }
PairChunks == { <<"$", " ">> }

\* a server that serves two runs at a time, both requested and spawned at
\* the start, with child_process adapters that print while they are alive.
\* The first session goes through every event: its process exits and the
\* client addresses one call to it at the start, a write or a signal; the
\* second session is a command that runs on.
PairNext ==
  \/ \E s \in PairIds, in \in PairRunInputs : now = 0 /\ RunCreate(s, in)
  \/ \E s \in PairIds : now = 0 /\ RunSpawned(s)
  \/ \E s \in PairIds, text \in PairChunks : proc[s].state = "alive" /\ OnData(s, text)
  \/ \E s \in SessionIds : Exit(s)
  \/ \E s \in PairIds : QuietFire(s)
  \/ \E s \in PairIds : IdleFire(s)
  \/ \E s \in PairIds : TimeoutFire(s)
  \/ \E s \in SessionIds : RemoveFire(s)
  \/ Advance
  \/ \E id \in SessionIds, data \in WriteData : now = 0 /\ proc[id].stdin = <<>> /\ proc[id].kills = {} /\ Write(id, data)
  \/ \E id \in SessionIds, signal \in SignalNames : now = 0 /\ proc[id].stdin = <<>> /\ proc[id].kills = {} /\ Signal(id, signal)

\* the server of PairNext runs without USE_PTY
PairInit == Init /\ ~usePty

PairSpec == PairInit /\ [][PairNext]_vars

\* the JSON-RPC layer alone: lines arrive and are dispatched
RpcNext ==
  \/ \E msg \in RpcMessages : Receive(msg)
  \/ Dispatch

RpcSpec == Init /\ [][RpcNext]_vars

(* ------------------------------ fairness ------------------------------- *)

\* a process that has been sent a signal exits
ExitAfterKill(s) ==
  /\ IF usePty THEN proc[s].kills # {} ELSE proc[s].kills \cap OsSignals # {}
  /\ Exit(s)

\* The event loop runs every timer that is due, lets time pass and resumes
\* the awaiting invoke; a signalled process exits. A process that was not
\* signalled, and its output, are under no obligation.
Fairness ==
  \A s \in SessionIds :
    /\ WF_vars(RunSpawned(s) \/ RunSpawnFailed(s))
    /\ WF_vars(QuietFire(s))
    /\ WF_vars(IdleFire(s))
    /\ WF_vars(TimeoutFire(s))
    /\ WF_vars(RemoveFire(s))
    /\ WF_vars(ExitAfterKill(s))

FairSpec == Init /\ [][Next]_vars /\ WF_vars(Advance) /\ Fairness

(* ------------------------------- claims -------------------------------- *)

\* the run call of session s has not returned yet
RunPending(s) == call[s].pc \in {"spawning", "pending"}

\* the run call of session s has returned a result or raised an error
RunReturned(s) == call[s].pc \in {"resolved", "rejected", "threw"}

\* C1: terminal states are absorbing: once a session's status is completed
\* or error, no event changes it again.
C1_TerminalAbsorbing ==
  [][\A s \in SessionIds :
       Terminal(sess[s].status) => sess'[s].status = sess[s].status]_vars

\* C2: whenever the session of a pending run call is completed or error, by
\* whichever path, that run call eventually returns.
C2_RunReturnsOnceTerminal ==
  \A s \in SessionIds :
    (RunPending(s) /\ Terminal(sess[s].status)) ~> RunReturned(s)

\* C3: when the run timeout has expired on a running command (the session
\* is in error with reason "Command timed out" and its process was sent
\* SIGTERM) and the adapter then exits, the session's status is still error
\* and its errorReason still "Command timed out", whatever the exit event
\* reports.
C3_TimeoutKillOutcome ==
  [][\A s \in SessionIds :
       ( /\ sess[s].status = "error"
         /\ sess[s].errorReason = "Command timed out"
         /\ "SIGTERM" \in proc[s].kills
         /\ proc[s].state = "alive"
         /\ proc'[s].state = "exited" )
         => (sess'[s].status = "error" /\ sess'[s].errorReason = "Command timed out")]_vars

\* C4: with timeoutMs > 0 and a process that exits once it is signalled,
\* every run call eventually returns, whatever waitingMs and stuckMs are.
C4_NoIndefiniteHang ==
  \A s \in SessionIds :
    (RunPending(s) /\ call[s].in.timeoutMs > 0) ~> RunReturned(s)

\* C5: when the run timeout fires on a session that is not yet terminal
\* (running, waiting or possibly-stuck), SIGTERM is sent to the adapter.
C5_TimeoutSendsSigterm ==
  [][\A s \in SessionIds :
       (TimeoutFire(s) /\ sess[s].status \in {"running", "waiting", "possibly-stuck"})
         => "SIGTERM" \in proc'[s].kills]_vars

\* C6: in every state, totalBytes is the sum of the UTF-8 byte lengths of
\* the chunks held in the buffer.
C6_ByteAccounting ==
  \A s \in created : sess[s].totalBytes = SumBytes(sess[s].buf)

\* C6 witness: a buffer that was trimmed and holds a multi-byte chunk.
C6_Witness ==
  \E s \in created :
    /\ Len(received[s]) > Len(sess[s].buf)
    /\ sess[s].buf # <<>>
    /\ \E i \in 1..Len(sess[s].buf) : ByteLength(sess[s].buf[i]) > Len(sess[s].buf[i])

\* C7: in every state, totalBytes <= maxBufferBytes unless the buffer holds
\* exactly one chunk.
C7_BoundedBuffer ==
  \A s \in created :
    sess[s].totalBytes <= sess[s].maxBufferBytes \/ Len(sess[s].buf) = 1

\* C7 witness: a single chunk larger than the cap was kept whole after the
\* older chunk was dropped.
C7_Witness ==
  \E s \in created :
    /\ Len(received[s]) = 2
    /\ Len(sess[s].buf) = 1
    /\ sess[s].totalBytes > sess[s].maxBufferBytes

\* terminal.attach: the output it returns for a session in the store
attachOutput(s) == Join(sess[s].buf)

\* t is a suffix of u
IsSuffix(t, u) == Len(t) <= Len(u) /\ t = SubSeq(u, Len(u) - Len(t) + 1, Len(u))

\* C8: the joined buffer is a suffix of the concatenation of all chunks
\* received so far, the buffer holds the latest chunks in arrival order, the
\* most recent one included, and the joined buffer is the whole
\* concatenation when the received bytes never exceeded the cap.
C8_TailPreservation ==
  \A s \in created :
    /\ IsSuffix(attachOutput(s), Join(received[s]))
    /\ IsSuffix(sess[s].buf, received[s])
    /\ (received[s] # <<>> => sess[s].buf # <<>>)
    /\ (SumBytes(received[s]) <= sess[s].maxBufferBytes
          => attachOutput(s) = Join(received[s]))

\* C8 witness: chunks were dropped, and what is left is a proper suffix.
C8_Witness ==
  \E s \in created :
    /\ sess[s].buf # <<>>
    /\ Len(attachOutput(s)) < Len(Join(received[s]))

\* C9: in every state where a session is completed or error, its quiet
\* timer and its idle timer are not armed and its adapter is released.
C9_ReleasedAtTermination ==
  \A s \in created :
    Terminal(sess[s].status)
      => /\ ~sess[s].quietTimer.live
         /\ ~sess[s].idleTimer.live
         /\ sess[s].adapter = "undefined"

\* the status changes of the state machine out of a non-terminal state
LegalTransitions ==
  {<<"idle", "running">>, <<"running", "waiting">>,
   <<"running", "possibly-stuck">>, <<"waiting", "possibly-stuck">>,
   <<"running", "completed">>, <<"waiting", "completed">>,
   <<"possibly-stuck", "completed">>}
  \cup {<<st, "error">> : st \in {"idle", "running", "waiting", "possibly-stuck"}}

\* C10: every status change out of a non-terminal state is a transition of
\* the state machine, and no session re-enters idle.
C10_LegalTransitions ==
  [][\A s \in SessionIds :
       /\ (~Terminal(sess[s].status) /\ sess'[s].status # sess[s].status)
            => <<sess[s].status, sess'[s].status>> \in LegalTransitions
       /\ (sess[s].status # "idle" => sess'[s].status # "idle")]_vars

\* C10 witness: a session went running -> waiting -> possibly-stuck and was
\* then completed by the quiet timer while its process was still alive.
C10_Witness ==
  \E s \in created :
    /\ sess[s].status = "completed"
    /\ proc[s].state = "alive"
    /\ \E i, j \in 1..Len(progress[s]) :
         i < j /\ progress[s][i] = "waiting" /\ progress[s][j] = "stuck"

\* C11: the exit event of the process only records the exit code and signal
\* and arms the quiet-complete timer quietMs ahead; it leaves the status as
\* it was, so that completed is reached only when that timer fires.
C11_ExitThroughQuietWindow ==
  [][\A s \in SessionIds :
       Exit(s) => /\ sess'[s].status = sess[s].status
                  /\ sess'[s].quietTimer.live
                  /\ sess'[s].quietTimer.at = now + call[s].in.quietMs]_vars

\* the cap of session s was never exceeded: nothing was trimmed
NothingTrimmed(s) ==
  SumBytes(received[s]) <= (IF sess[s].maxBufferBytes # 0
                            THEN sess[s].maxBufferBytes ELSE DefaultCap)

\* C12: when nothing was trimmed, every chunk delivered before the quiet
\* window after the exit event has elapsed is in the output run returned.
C12_LateOutputInResult ==
  \A s \in created :
    ( /\ call[s].pc = "resolved"
      /\ proc[s].state = "exited"
      /\ NothingTrimmed(s)
      /\ sess[s].lastByteAt < proc[s].exitedAt + call[s].in.quietMs )
      => call[s].result.output = Join(received[s])

\* a step that serves terminal.write or terminal.signal on session id
WriteOrSignal(id) ==
  \/ \E data \in WriteData : Write(id, data)
  \/ \E signal \in SignalNames : Signal(id, signal)

\* C13: write and signal on a session that is completed or error, or whose
\* adapter is released, return an error and neither write to the adapter
\* nor call its kill.
C13_TerminatedRejectsInput ==
  [][\A id \in SessionIds :
       ( /\ found(id)
         /\ Terminal(sess[id].status) \/ sess[id].adapter = "undefined"
         /\ WriteOrSignal(id) )
       => /\ ~reply'.ok
          /\ proc'[id].stdin = proc[id].stdin
          /\ proc'[id].kills = proc[id].kills]_vars

\* C14: signal "CTRL_C" on a live session writes the single byte 0x03
\* ("ETX") to the adapter and does not call its kill.
C14_CtrlCSynthetic ==
  [][\A id \in SessionIds :
       ( /\ active(id)
         /\ ~Terminal(sess[id].status)
         /\ Signal(id, "CTRL_C") )
       => /\ proc'[id].stdin = Append(proc[id].stdin, <<"ETX">>)
          /\ proc'[id].kills = proc[id].kills]_vars

\* the run call of session s is over and its adapter could not be started
SpawnFailed(s) == call[s].pc \notin {"none", "spawning"} /\ proc[s].state = "none"

\* C15: when the adapter cannot be started, run returns a result with
\* success = false and an error message, it raises no error, and the
\* session is in error with its errorReason set.
C15_SpawnFailureIsValue ==
  \A s \in created :
    SpawnFailed(s)
      => /\ call[s].pc = "resolved"
         /\ ~call[s].result.success
         /\ call[s].result.error # "undefined"
         /\ sess[s].status = "error"
         /\ sess[s].errorReason # "undefined"

\* the process of session s exited with a non-zero code or on a signal
FailedExit(s) ==
  /\ proc[s].state = "exited"
  /\ sess[s].exitCode # "0" \/ sess[s].exitSignal \notin {"null", "0"}

\* C16: once the adapter is spawned the run call raises no error, and an
\* exit with a non-zero code or on a signal gives a returned result with
\* success = false and a session in error with its errorReason set.
C16_ErrorsAfterSpawn ==
  \A s \in created :
    proc[s].state # "none"
      => /\ call[s].pc \notin {"rejected", "threw"}
         /\ FailedExit(s)
              => /\ call[s].pc = "resolved"
                 /\ ~call[s].result.success
                 /\ sess[s].status = "error"
                 /\ sess[s].errorReason # "undefined"

\* a step that serves status, attach, write or signal on session id
CallOn(id) ==
  \/ \E tail \in Tails : Status(id, tail)
  \/ Attach(id)
  \/ WriteOrSignal(id)

\* C17: status, attach, write and signal called with an id that is not in
\* the store return an error and leave the store, every session and every
\* adapter as they were.
C17_UnknownSession ==
  [][\A id \in ToolIds :
       (id \notin store /\ CallOn(id))
         => /\ ~reply'.ok
            /\ UNCHANGED <<store, created, sess, proc>>]_vars

\* C17 witness: a call on a session that was removed from the store after
\* its grace period was answered with an error.
C17_Witness ==
  /\ reply.tool \in {"status", "attach", "write", "signal"}
  /\ ~reply.ok
  /\ reply.id \in created \ store

\* a step that serves one of the queries status, attach and list
Query ==
  \/ \E id \in ToolIds, tail \in Tails : Status(id, tail)
  \/ \E id \in ToolIds : Attach(id)
  \/ List

\* C18: status, attach and list change no session, no store entry and no
\* adapter, and a status call repeated right after a status call returns
\* the same snapshot.
C18_QueriesReadOnly ==
  [][ /\ UNCHANGED <<store, created, sess, call, proc>> \/ ~Query
      /\ \A id \in ToolIds, tail \in Tails :
           (found(id) /\ Status(id, tail))
             => \A again \in Tails :
                  Ok("status", id, statusTool(sess'[id], again).body) = reply' ]_vars

\* C18 witness: a status call was answered with the output of a session.
C18_Witness ==
  /\ reply.tool = "status"
  /\ reply.ok
  /\ reply.body.output # <<>>

\* the last n bytes of text: its longest suffix of at most n bytes
RECURSIVE TailBytes(_, _)
TailBytes(text, n) ==
  IF ByteLength(text) <= n THEN text ELSE TailBytes(Tail(text), n)

\* C19: the text status(sessionId, tail) returns is the last `tail` bytes
\* of the joined buffer, the whole buffer only when it is no longer than
\* `tail`.
C19_StatusTail ==
  [][\A id \in ToolIds, tail \in Tails :
       (Status(id, tail) /\ found(id))
         => reply'.body.output = TailBytes(Join(sess[id].buf), tail)]_vars

\* C20: a session is removed from the store only once it is completed or
\* error, and not before the grace period after it first became so is over.
C20_SessionsOutliveTermination ==
  \A s \in created :
    s \notin store
      => /\ Terminal(sess[s].status)
         /\ terminalAt[s] # Never
         /\ now >= terminalAt[s] + GraceMs

\* C20 witness: a session completed before its process exited was removed
\* from the store.
C20_Witness ==
  \E s \in created \ store : terminalAt[s] < proc[s].exitedAt

\* C21: every session that is completed or error, by whichever path, is
\* eventually removed from the store.
C21_EventuallyEvicted ==
  \A s \in SessionIds :
    (s \in store /\ Terminal(sess[s].status)) ~> (s \notin store)

\* C22: once a session's prompt pattern is set, no step changes it,
\* whatever lines arrive afterwards.
C22_PromptWriteOnce ==
  [][\A s \in SessionIds :
       sess[s].promptRe # "undefined" => sess'[s].promptRe = sess[s].promptRe]_vars

\* C22 witness: a session whose pattern is the POSIX one has just received
\* a PowerShell prompt.
C22_Witness ==
  \E s \in created :
    /\ sess[s].promptRe = "Posix"
    /\ received[s] # <<>>
    /\ detectPrompt(received[s][Len(received[s])]) = "PowerShell"

\* C23: the completion sink has run once for every session that reached
\* completed or error, and never for a session that has not.
C23_SinkOncePerTermination ==
  \A s \in created :
    call[s].sink = (IF terminalAt[s] # Never THEN 1 ELSE 0)

\* C24: a request that names a method without handler is answered with
\* error -32601, and a line that is not well-formed JSON-RPC is answered
\* with error -32700.
C24_ProtocolErrors ==
  [][Dispatch =>
       /\ ( /\ raw.kind = "object" /\ raw.jsonrpc = "2.0"
            /\ raw.method \notin Handlers \cup {"NotAString"}
            /\ raw.id # "undefined" )
           => (reply'.tool = "rpc" /\ ~reply'.ok /\ reply'.body.code = -32601)
       /\ ( \/ raw.kind \in {"garbage", "null"}
            \/ raw.kind = "object" /\ (raw.jsonrpc # "2.0" \/ raw.method = "NotAString") )
           => (reply'.tool = "rpc" /\ ~reply'.ok /\ reply'.body.code = -32700)]_vars

\* C25: when the process exits while the quiet timer of a prompt is
\* pending, the exit arms the quiet timer again, quietMs ahead, and leaves
\* the status to that timer: completed is set once, when it fires.
C25_QuietWindowCoalescing ==
  [][\A s \in SessionIds :
       (sess[s].quietTimer.live /\ ~Terminal(sess[s].status) /\ Exit(s))
         => /\ sess'[s].quietTimer.live
            /\ sess'[s].quietTimer.at = now + call[s].in.quietMs
            /\ ~Terminal(sess'[s].status)]_vars

\* C26: when the quiet timer fires on a session that is neither completed
\* nor error, the status becomes completed and the idle timer is cancelled;
\* when it fires on a completed or error session, status and errorReason
\* stay as they are.
C26_QuietFireGuarded ==
  [][\A s \in SessionIds :
       QuietFire(s)
         => IF Terminal(sess[s].status)
            THEN /\ sess'[s].status = sess[s].status
                 /\ sess'[s].errorReason = sess[s].errorReason
            ELSE /\ sess'[s].status = "completed"
                 /\ ~sess'[s].idleTimer.live]_vars

\* C26 witness: the quiet timer fired on a session that the timeout had
\* put in error before, with the process still alive.
C26_Witness ==
  \E s \in created :
    /\ sess[s].quietTimer.set /\ ~sess[s].quietTimer.live
    /\ sess[s].status = "error"
    /\ sess[s].errorReason = "Command timed out"
    /\ proc[s].state = "alive"

\* some line of text matches a built-in prompt pattern
HasPromptLine(text) ==
  \E i \in 1..Len(SplitLines(text)) : detectPrompt(SplitLines(text)[i]) # "undefined"

\* C27: a chunk without prompt line that arrives while the quiet timer is
\* pending cancels the pending completion: the timer is no longer armed.
C27_OutputCancelsCompletion ==
  [][\A s \in SessionIds, text \in Chunks :
       ( /\ sess[s].quietTimer.live
         /\ ~Terminal(sess[s].status)
         /\ ~HasPromptLine(text)
         /\ OnData(s, text) )
       => ~sess'[s].quietTimer.live]_vars

\* the status an idle tick gives a session of status st that has been idle
\* for `idle` ms, with thresholds w (waiting) and k (stuck)
Classified(st, idle, w, k) ==
  IF st \in {"running", "waiting"} /\ idle > k THEN "possibly-stuck"
  ELSE IF st = "running" /\ idle > w THEN "waiting"
  ELSE st

\* the number of status changes of that tick
Changes(st, idle, w, k) ==
  (IF st = "running" /\ idle > w THEN 1 ELSE 0)
  + (IF st \in {"running", "waiting"} /\ idle > k THEN 1 ELSE 0)

\* C28: an idle tick with idle = now - lastByteAt takes a running session
\* with idle > waitingMs to waiting and a running or waiting session with
\* idle > stuckMs to possibly-stuck, emits one progress message per change,
\* and leaves every other status as it is.
C28_IdleClassification ==
  [][\A s \in SessionIds :
       IdleFire(s)
         => LET idle == now - sess[s].lastByteAt
                w == call[s].in.waitingMs
                k == call[s].in.stuckMs
            IN  /\ sess'[s].status = Classified(sess[s].status, idle, w, k)
                /\ Len(progress'[s]) = Len(progress[s]) + Changes(sess[s].status, idle, w, k)]_vars

\* C28 witness: one tick crossed both thresholds of a running session, which
\* went to waiting and on to possibly-stuck with two messages.
C28_Witness ==
  \E s \in created :
    /\ call[s].in.waitingMs = call[s].in.stuckMs
    /\ sess[s].status = "possibly-stuck"
    /\ progress[s] = <<"waiting", "stuck">>

\* a step that delivers a chunk to session s
Chunk(s) == \E text \in Chunks : OnData(s, text)

\* C29: no chunk and no idle tick takes a session from possibly-stuck to
\* waiting or running, or from waiting to running; a chunk leaves the status
\* as it is and sets lastByteAt.
C29_IdleOnlyForward ==
  [][\A s \in SessionIds :
       /\ \/ /\ sess[s].status = "possibly-stuck" => sess'[s].status = "possibly-stuck"
             /\ sess[s].status = "waiting" => sess'[s].status # "running"
          \/ ~(Chunk(s) \/ IdleFire(s))
       /\ \/ /\ sess'[s].status = sess[s].status
             /\ sess'[s].lastByteAt = now
          \/ ~Chunk(s)]_vars

\* C29 witness: a possibly-stuck session received output and is still
\* possibly-stuck after the idle tick that followed.
C29_Witness ==
  \E s \in created :
    /\ sess[s].status = "possibly-stuck"
    /\ \E i, j \in 1..Len(progress[s]) :
         i < j /\ progress[s][i] = "stuck" /\ progress[s][j] = "received"
    /\ sess[s].lastByteAt < now
    /\ sess[s].idleTimer.live /\ sess[s].idleTimer.at = now + IdlePollMs

\* session s is possibly-stuck and its latest progress message reports a
\* chunk: output has arrived since it was classified
ResumedWhileStuck(s) ==
  /\ sess[s].status = "possibly-stuck"
  /\ progress[s] # <<>>
  /\ progress[s][Len(progress[s])] = "received"

\* C30 as stated: when a possibly-stuck session has received new output,
\* the next idle tick changes its status to waiting.
C30_DemotedOnResume ==
  [][\A s \in SessionIds :
       (ResumedWhileStuck(s) /\ IdleFire(s)) => sess'[s].status = "waiting"]_vars

\* C30 amended: a chunk delivered to a possibly-stuck session sets
\* lastByteAt and leaves it possibly-stuck, and so does every idle tick
\* that follows.
C30_StuckStaysStuck ==
  [][\A s \in SessionIds :
       /\ (sess[s].status = "possibly-stuck" /\ Chunk(s))
            => (sess'[s].lastByteAt = now /\ ResumedWhileStuck(s)')
       /\ (ResumedWhileStuck(s) /\ IdleFire(s))
            => (sess'[s].status = "possibly-stuck" /\ progress'[s] = progress[s])]_vars

\* C30 witness: an idle tick has just run, less than stuckMs after the
\* latest output, on a session that received output while possibly-stuck.
C30_Witness ==
  \E s \in created :
    /\ ResumedWhileStuck(s)
    /\ now - sess[s].lastByteAt > 0
    /\ now - sess[s].lastByteAt <= call[s].in.stuckMs
    /\ sess[s].idleTimer.live /\ sess[s].idleTimer.at = now + IdlePollMs

\* C31: a chunk made of spinner frames only leaves everything classification
\* depends on as it was - the prompt pattern, the last classified line and
\* the quiet timer - so the lines after it are classified as if it had not
\* arrived; its bytes are appended to the buffer.
C31_SpinnerInvisible ==
  [][\A s \in SessionIds, text \in SpinnerChunks :
       (SpinnerChunk(call[s].lastLine, text) /\ OnData(s, text))
         => /\ sess'[s].promptRe = sess[s].promptRe
            /\ call'[s].lastLine = call[s].lastLine
            /\ sess'[s].quietTimer = sess[s].quietTimer
            /\ sess'[s].buf # <<>>
            /\ sess'[s].buf[Len(sess'[s].buf)] = text]_vars

\* C31 witness: a spinner frame arrived between two real lines, the second
\* a prompt that set the pattern and armed the quiet timer; the frame is in
\* the buffer.
C31_Witness ==
  \E s \in created :
    /\ received[s] = << <<"w", "|">>, <<"w", "/">>, <<"$", " ">> >>
    /\ proc[s].frames = 1
    /\ sess[s].promptRe = "Posix"
    /\ sess[s].quietTimer.live
    /\ sess[s].quietTimer.at = sess[s].lastByteAt + call[s].in.quietMs
    /\ \E i \in 1..Len(sess[s].buf) : sess[s].buf[i] = <<"w", "/">>

\* the final character of a is one of | / - \
EndsInSpinner(a) == a # <<>> /\ a[Len(a)] \in {"|", "/", "-", "BSL"}

\* isSpinnerFrame as it is specified: after stripping SGR sequences and
\* trailing white space, equal length, final characters among | / - \,
\* and identical elsewhere
isSpinnerFrame(prev, next) ==
  LET a == trimEnd(stripAnsi(prev))
      b == trimEnd(stripAnsi(next))
  IN  /\ Len(a) = Len(b)
      /\ EndsInSpinner(a) /\ EndsInSpinner(b)
      /\ \A i \in 1..(Len(a) - 1) : a[i] = b[i]

\* C32: the spinner guard of onChunk, evaluated on the last classified line
\* and the line of the chunk, is true if and only if the two lines are
\* spinner frames as specified; empty and blank lines included.
C32_SpinnerFrameIff ==
  [][\A s \in SessionIds, text \in SpinnerChunks :
       OnData(s, text)
         => (isLikelySpinnerFrame(call[s].lastLine, text)
               <=> isSpinnerFrame(call[s].lastLine, text))]_vars

\* some line of text matches a finish phrase and none a prompt pattern
FinishOnly(text) ==
  /\ \E i \in 1..Len(SplitLines(text)) : looksFinished(SplitLines(text)[i])
  /\ ~HasPromptLine(text)

\* C33: a chunk whose lines match a finish phrase and no prompt pattern
\* leaves the status, the quiet timer and every other field of the session
\* as they were, apart from the buffer with its byte count, to which the
\* chunk is appended, and lastByteAt, which is set.
C33_FinishAdvisory ==
  [][\A s \in SessionIds, text \in FinishChunks :
       (FinishOnly(text) /\ OnData(s, text))
         => /\ sess'[s].status = sess[s].status
            /\ sess'[s].quietTimer = sess[s].quietTimer
            /\ sess'[s] = [sess[s] EXCEPT !.buf = sess'[s].buf,
                                         !.totalBytes = sess'[s].totalBytes,
                                         !.lastByteAt = now]
            /\ sess'[s].buf[Len(sess'[s].buf)] = text]_vars

\* C33 witness: a check mark arrived while the quiet timer of a prompt was
\* pending; the session is still running and the timer is still pending.
C33_Witness ==
  \E s \in created :
    /\ received[s] = << <<"$", " ">>, <<"U2713">> >>
    /\ sess[s].status = "running"
    /\ sess[s].promptRe = "Posix"
    /\ sess[s].quietTimer.live

\* C34: once the exit event of the adapter has been processed the run
\* timeout is no longer pending, so it cannot fire: no SIGTERM is sent and
\* no session field is changed by it afterwards.
C34_TimeoutCancelledOnExit ==
  \A s \in created :
    proc[s].state = "exited" => ~call[s].timeoutId.live

\* C34 witness: a process exited before its timeout could expire and was
\* never signalled; the deadline has long passed (the session was removed
\* from the store) and the timeout has not acted.
C34_Witness ==
  \E s \in created \ store :
    /\ call[s].timeoutId.set
    /\ proc[s].state = "exited"
    /\ proc[s].exitedAt < call[s].in.timeoutMs
    /\ proc[s].kills = {}
    /\ sess[s].errorReason # "Command timed out"
    /\ now >= proc[s].exitedAt + GraceMs

\* C35: the tools of the server have pairwise distinct names, and a
\* tools/call for "terminal.run" is served by the run tool that makes a
\* session: a new session is in the store, where status, list and attach
\* find it.
C35_ToolNamesUnique ==
  [][(Dispatch /\ raw.kind = "object" /\ raw.jsonrpc = "2.0"
               /\ raw.method = "tools/call" /\ raw.name = "terminal.run")
       => /\ \A i, j \in 1..Len(ToolNames) : i # j => ToolNames[i] # ToolNames[j]
          /\ \E s \in store' \ store : s \in created' /\ sess'[s].status = "idle"]_vars

\* C36: when run has returned a result after the exit of the adapter,
\* result.success is true if and only if the status of the session, as
\* status and list report it, is completed.
C36_ResultAgreesWithStatus ==
  \A s \in created :
    (call[s].pc = "resolved" /\ proc[s].state = "exited")
      => (call[s].result.success <=> sess[s].status = "completed")

\* C37 as stated: in every state where a session is completed, its exitCode
\* has been recorded and is 0.
C37_CompletedMeansExitZero ==
  \A s \in created :
    sess[s].status = "completed" => sess[s].exitCode = "0"

\* C37 amended: a completed session either has exited with exitCode 0, or
\* was completed by the quiet timer of a prompt: its pattern is set, its
\* process has not exited and no exitCode is recorded.
C37_CompletedByExitOrPrompt ==
  \A s \in created :
    sess[s].status = "completed"
      => \/ proc[s].state = "exited" /\ sess[s].exitCode = "0"
         \/ /\ proc[s].state = "alive"
            /\ sess[s].exitCode = "undefined"
            /\ sess[s].promptRe # "undefined"

\* C37 witness: a session completed by the quiet timer while its process
\* runs on, with no exitCode.
C37_Witness ==
  \E s \in created :
    /\ sess[s].status = "completed"
    /\ sess[s].exitCode = "undefined"
    /\ sess[s].quietTimer.set /\ ~sess[s].quietTimer.live
    /\ proc[s].state = "alive"

\* C38: whenever a chunk sets the prompt pattern of a session, the line
\* that set it also arms the quiet timer, quietMs ahead; also when SGR
\* sequences follow the prompt characters on the line.
C38_DetectionImpliesArming ==
  [][\A s \in SessionIds, text \in PromptChunks :
       ( /\ OnData(s, text)
         /\ sess[s].promptRe = "undefined"
         /\ sess'[s].promptRe # "undefined" )
       => /\ sess'[s].quietTimer.live
          /\ sess'[s].quietTimer.at = now + call[s].in.quietMs]_vars

\* a step that is an event of session s or a call addressed to it: a chunk,
\* the exit, a quiet-timer, idle-timer or timeout callback, a write or a
\* signal
EventOf(s) ==
  \/ \E text \in PairChunks : OnData(s, text)
  \/ Exit(s)
  \/ QuietFire(s)
  \/ IdleFire(s)
  \/ TimeoutFire(s)
  \/ WriteOrSignal(s)

\* C39: an event of one session, or a write or signal addressed to it,
\* leaves every other session as it was: its status, buffer, totalBytes,
\* lastByteAt, prompt pattern and timers (all fields of the session), the
\* last classified line and the run timeout of its call. Put as: whenever
\* a step changes one of these for session t, it is no event of any other
\* session s.
C39_SessionsIsolated ==
  [][\A s \in PairIds, t \in PairIds :
       \/ s = t
       \/ /\ sess'[t] = sess[t]
          /\ call'[t].lastLine = call[t].lastLine
          /\ call'[t].timeoutId = call[t].timeoutId
       \/ ~EventOf(s)]_vars

\* C39 witness: the process of one session, which had been written to or
\* signalled, exited while the other session was live with output in its
\* buffer, a prompt pattern and its idle poll armed.
C39_Witness ==
  \E s \in PairIds, t \in PairIds :
    /\ s # t
    /\ proc[s].state = "exited"
    /\ proc[s].stdin # <<>> \/ proc[s].kills # {}
    /\ sess[t].status \in {"running", "waiting", "possibly-stuck"}
    /\ sess[t].buf # <<>>
    /\ sess[t].promptRe # "undefined"
    /\ sess[t].idleTimer.live
    /\ proc[s].exitedAt >= sess[t].lastByteAt

\* the positions of progress message m among the messages of session s
Emitted(s, m) == { i \in 1..Len(progress[s]) : progress[s][i] = m }

\* C40: for each session the waiting message is emitted at most once and the
\* possibly-stuck message at most once, and when both are emitted the
\* waiting message comes first.
C40_NoticesOnceInOrder ==
  \A s \in SessionIds :
    /\ Cardinality(Emitted(s, "waiting")) <= 1
    /\ Cardinality(Emitted(s, "stuck")) <= 1
    /\ \A i \in Emitted(s, "waiting"), j \in Emitted(s, "stuck") : i < j

\* C40 witness: a session whose thresholds differ received output, was
\* reported waiting on one idle tick and possibly stuck on a later one.
C40_Witness ==
  \E s \in created :
    /\ call[s].in.waitingMs < call[s].in.stuckMs
    /\ \E k \in Emitted(s, "received"), i \in Emitted(s, "waiting"), j \in Emitted(s, "stuck") :
         /\ k < i
         /\ i < j
         /\ j = Len(progress[s])

====
